---------------------------- MODULE Spec2Model ----------------------------
(***************************************************************************)
(* Two U-Boot leaf drivers:                                                *)
(*                                                                         *)
(*   drivers/phy/allwinner/phy-sun50i-usb3.c   (USB3 PHY: probe/init/exit) *)
(*   drivers/pinctrl/qcom/pinctrl-apq8096.c    (pin and function lookup)   *)
(*                                                                         *)
(* The PHY driver is modelled statement by statement: one action per       *)
(* collaborator call or register access, with a program counter.  A u32 is *)
(* the set of its set bits (a subset of 0..31), so that and/or/not/shift   *)
(* are exact on all 32 bits.  The pin-control driver is modelled call by   *)
(* call, with the 32-byte scratch buffer kept byte by byte.                *)
(***************************************************************************)
EXTENDS Integers, Sequences, FiniteSets

VARIABLES
    \* ---- phy-sun50i-usb3.c ----
    pc,              \* position inside the running handler, "idle" between calls
    op,              \* handler running or last run: "none", "probe", "init", "exit"
    ret,             \* the handler's local `int ret`
    result,          \* value the last finished handler returned to the host
    calls,           \* collaborator calls and register accesses of the current handler
    priv,            \* struct sun50i_usb3_phy_priv: which handles probe has filled in
    probed,          \* host: probe() returned 0
    powered,         \* host: init() returned 0 and exit() has not run since
    clk_enabled,     \* the gating clock
    clk_balance,     \* successful clock enables minus clock disables so far
    reset_asserted,  \* the reset line
    regs,            \* the MMIO block: offset -> u32
    val,             \* sun50i_usb3_phy_open()'s local `u32 val`
    tune_high_read,  \* value readl() returned for PHY_TUNE_HIGH in the last open()
    \* ---- pinctrl-apq8096.c ----
    pin_name,            \* static char pin_name[MAX_PIN_NAME_LEN]
    pin_name_sel,        \* selector last formatted into pin_name, -1 before the first
    msm_pinctrl_pins,    \* the named-pin table
    msm_pinctrl_functions, \* the function table
    apq8096_data,        \* pin_count, functions_count
    last                 \* per caller: the last accessor call and what it returned

phyVars == <<pc, op, ret, result, calls, priv, probed, powered, clk_enabled,
             clk_balance, reset_asserted, regs, val, tune_high_read>>
pinVars == <<pin_name, pin_name_sel, msm_pinctrl_pins, msm_pinctrl_functions,
             apq8096_data, last>>
vars == <<phyVars, pinVars>>

(***************************************************************************)
(* u32 arithmetic on bit sets                                              *)
(***************************************************************************)
BitIdx == 0..31

RECURSIVE Pow2(_)
Pow2(n) == IF n = 0 THEN 1 ELSE 2 * Pow2(n - 1)

\* The u32 holding the non-negative C int constant n (n < 2^31).
U32(n) == {i \in 0..30 : (n \div Pow2(i)) % 2 = 1}

Shl(v, n) == {i + n : i \in v} \cap BitIdx
Shr(v, n) == {i - n : i \in v} \cap BitIdx
BitOr(a, b) == a \cup b
BitAnd(a, b) == a \cap b
BitNot(a) == BitIdx \ a

ALL_ONES == BitIdx

\* include/linux/bits.h: GENMASK(h, l) = (~0 << l) & (~0 >> (BITS - 1 - h)),
\* taken at the 32-bit width of the u32 it is applied to.
GENMASK(h, l) == BitAnd(Shl(ALL_ONES, l), Shr(ALL_ONES, 31 - h))

(***************************************************************************)
(* phy-sun50i-usb3.c: register map and bit definitions                     *)
(***************************************************************************)
SUNXI_ISCR == 0
SUNXI_PIPE_CLOCK_CONTROL == 20
SUNXI_PHY_TUNE_LOW == 24
SUNXI_PHY_TUNE_HIGH == 28
SUNXI_PHY_EXTERNAL_CONTROL == 32

Offsets == {SUNXI_ISCR, SUNXI_PIPE_CLOCK_CONTROL, SUNXI_PHY_TUNE_LOW,
            SUNXI_PHY_TUNE_HIGH, SUNXI_PHY_EXTERNAL_CONTROL}

SUNXI_ISCR_FORCE_VBUS == Shl(U32(3), 12)
SUNXI_PCC_PIPE_CLK_OPEN == Shl(U32(1), 6)
SUNXI_PEC_EXTERN_VBUS == Shl(U32(3), 1)
SUNXI_PEC_SSC_EN == Shl(U32(1), 24)
SUNXI_PEC_REF_SSP_EN == Shl(U32(1), 26)

SUNXI_TX_DEEMPH_3P5DB(n) == Shl(U32(n), 19)
SUNXI_TX_DEEMPH_3P5DB_MASK == GENMASK(24, 19)
SUNXI_TX_DEEMPH_6DB(n) == Shl(U32(n), 13)
SUNXI_TX_DEEMPH_6GB_MASK == GENMASK(18, 13)
SUNXI_TX_SWING_FULL(n) == Shl(U32(n), 6)
SUNXI_TX_SWING_FULL_MASK == GENMASK(12, 6)
SUNXI_LOS_BIAS(n) == Shl(U32(n), 3)
SUNXI_LOS_BIAS_MASK == GENMASK(5, 3)
SUNXI_TXVBOOSTLVL(n) == Shl(U32(n), 0)
SUNXI_TXVBOOSTLVL_MASK == GENMASK(2, 0)

\* 0x0047fc87
TUNE_LOW_MAGIC == 4717703

EINVAL == 22

\* Non-zero results the clock and reset collaborators may hand back.
Errnos == {-5, -110}

\* Register contents the hardware may hold before the driver touches it.
OddBits == {i \in BitIdx : i % 2 = 1}
EvenBits == {i \in BitIdx : i % 2 = 0}
RegSamples == {{}, ALL_ONES, OddBits, EvenBits}

Call(fn, arg, rv) == <<fn, arg, rv>>


(***************************************************************************)
(* phy-sun50i-usb3.c: sun50i_usb3_phy_probe()                              *)
(***************************************************************************)
\* The host binds the device and calls probe; a failed probe may be retried.
ProbeCall ==
    /\ pc = "idle" /\ ~probed
    /\ pc' = "probe_clk" /\ op' = "probe" /\ calls' = <<>>
    /\ UNCHANGED <<ret, result, priv, probed, powered, clk_enabled, clk_balance,
                   reset_asserted, regs, val, tune_high_read, pinVars>>

\* ret = clk_get_by_index(dev, 0, &priv->clk); if (ret) return ret;
ProbeClkGet ==
    /\ pc = "probe_clk"
    /\ \E r \in {0} \cup Errnos :
          /\ ret' = r
          /\ calls' = Append(calls, Call("clk_get_by_index", 0, r))
          /\ IF r # 0
                THEN result' = r /\ pc' = "idle" /\ UNCHANGED priv
                ELSE priv' = [priv EXCEPT !.clk = TRUE] /\ pc' = "probe_reset"
                     /\ UNCHANGED result
    /\ UNCHANGED <<op, probed, powered, clk_enabled, clk_balance,
                   reset_asserted, regs, val, tune_high_read, pinVars>>

\* ret = reset_get_by_index(dev, 0, &priv->reset); if (ret) return ret;
ProbeResetGet ==
    /\ pc = "probe_reset"
    /\ \E r \in {0} \cup Errnos :
          /\ ret' = r
          /\ calls' = Append(calls, Call("reset_get_by_index", 0, r))
          /\ IF r # 0
                THEN result' = r /\ pc' = "idle" /\ UNCHANGED priv
                ELSE priv' = [priv EXCEPT !.reset = TRUE] /\ pc' = "probe_regs"
                     /\ UNCHANGED result
    /\ UNCHANGED <<op, probed, powered, clk_enabled, clk_balance,
                   reset_asserted, regs, val, tune_high_read, pinVars>>

ProbeRegsResult_NoNullCheck(base) == 0

\* What probe returns once dev_read_addr_ptr() has handed back `base`
\* (0 is NULL, 1 stands for any mapped address).
ProbeRegsResult(base) == IF base = 0 THEN -EINVAL ELSE 0

\* priv->regs = dev_read_addr_ptr(dev); if (!priv->regs) return -EINVAL; return 0;
ProbeReadAddr ==
    /\ pc = "probe_regs"
    /\ \E base \in {0, 1} :
          /\ calls' = Append(calls, Call("dev_read_addr_ptr", 0, base))
          /\ priv' = [priv EXCEPT !.regs = (base # 0)]
          /\ result' = ProbeRegsResult(base)
          /\ probed' = (ProbeRegsResult(base) = 0)
    /\ pc' = "idle"
    /\ UNCHANGED <<op, ret, powered, clk_enabled, clk_balance, reset_asserted,
                   regs, val, tune_high_read, pinVars>>

(***************************************************************************)
(* phy-sun50i-usb3.c: sun50i_usb3_phy_open()                               *)
(***************************************************************************)
\* val = readl(phy->regs + off);
ReadReg(at, off, next) ==
    /\ pc = at
    /\ val' = regs[off]
    /\ tune_high_read' = IF off = SUNXI_PHY_TUNE_HIGH THEN regs[off]
                                                      ELSE tune_high_read
    /\ calls' = Append(calls, Call("readl", off, 0))
    /\ pc' = next
    /\ UNCHANGED <<op, ret, result, priv, probed, powered, clk_enabled,
                   clk_balance, reset_asserted, regs, pinVars>>

\* val = newval; writel(wr, phy->regs + off);
WriteReg(at, off, newval, wr, next) ==
    /\ pc = at
    /\ val' = newval
    /\ regs' = [regs EXCEPT ![off] = wr]
    /\ calls' = Append(calls, Call("writel", off, 0))
    /\ pc' = next
    /\ UNCHANGED <<op, ret, result, priv, probed, powered, clk_enabled,
                   clk_balance, reset_asserted, tune_high_read, pinVars>>

\* val |= SUNXI_PEC_EXTERN_VBUS; val |= SUNXI_PEC_SSC_EN | SUNXI_PEC_REF_SSP_EN;
ExternalControlValue(v) ==
    BitOr(BitOr(v, SUNXI_PEC_EXTERN_VBUS),
          BitOr(SUNXI_PEC_SSC_EN, SUNXI_PEC_REF_SSP_EN))

\* val |= SUNXI_PCC_PIPE_CLK_OPEN;
PipeClockValue(v) == BitOr(v, SUNXI_PCC_PIPE_CLK_OPEN)

\* val |= SUNXI_ISCR_FORCE_VBUS;
IscrValue(v) == BitOr(v, SUNXI_ISCR_FORCE_VBUS)

\* val &= ~(SUNXI_TXVBOOSTLVL_MASK | ... | SUNXI_TX_DEEMPH_3P5DB_MASK);
TuneHighCleared(v) ==
    BitAnd(v, BitNot(BitOr(SUNXI_TXVBOOSTLVL_MASK,
                     BitOr(SUNXI_LOS_BIAS_MASK,
                     BitOr(SUNXI_TX_SWING_FULL_MASK,
                     BitOr(SUNXI_TX_DEEMPH_6GB_MASK,
                           SUNXI_TX_DEEMPH_3P5DB_MASK))))))

\* val |= SUNXI_TXVBOOSTLVL(0x7); ... val |= SUNXI_TX_DEEMPH_3P5DB(0x15);
TuneHighReplaced(v) ==
    BitOr(BitOr(BitOr(BitOr(BitOr(v, SUNXI_TXVBOOSTLVL(7)),
                            SUNXI_LOS_BIAS(7)),
                      SUNXI_TX_SWING_FULL(85)),
                SUNXI_TX_DEEMPH_6DB(32)),
          SUNXI_TX_DEEMPH_3P5DB(21))

TuneHighValue_NoClear(v) == TuneHighReplaced(v)

\* The value written back to PHY_TUNE_HIGH for the value v read from it.
TuneHighValue(v) == TuneHighReplaced(TuneHighCleared(v))

OpenExternalControlRead ==
    ReadReg("open_pec_rd", SUNXI_PHY_EXTERNAL_CONTROL, "open_pec_wr")

OpenExternalControlWrite ==
    WriteReg("open_pec_wr", SUNXI_PHY_EXTERNAL_CONTROL,
             ExternalControlValue(val), ExternalControlValue(val), "open_pcc_rd")

OpenPipeClockRead ==
    ReadReg("open_pcc_rd", SUNXI_PIPE_CLOCK_CONTROL, "open_pcc_wr")

OpenPipeClockWrite ==
    WriteReg("open_pcc_wr", SUNXI_PIPE_CLOCK_CONTROL,
             PipeClockValue(val), PipeClockValue(val), "open_iscr_rd")

OpenIscrRead ==
    ReadReg("open_iscr_rd", SUNXI_ISCR, "open_iscr_wr")

OpenIscrWrite ==
    WriteReg("open_iscr_wr", SUNXI_ISCR, IscrValue(val), IscrValue(val),
             "open_tune_low_wr")

\* writel(0x0047fc87, phy->regs + SUNXI_PHY_TUNE_LOW); val is left alone.
OpenTuneLowWrite ==
    WriteReg("open_tune_low_wr", SUNXI_PHY_TUNE_LOW, val, U32(TUNE_LOW_MAGIC),
             "open_tune_high_rd")

OpenTuneHighRead_Skipped ==
    /\ pc = "open_tune_high_rd"
    /\ pc' = "open_tune_high_wr"
    /\ UNCHANGED <<op, ret, result, calls, priv, probed, powered, clk_enabled,
                   clk_balance, reset_asserted, regs, val, tune_high_read,
                   pinVars>>

OpenTuneHighRead ==
    ReadReg("open_tune_high_rd", SUNXI_PHY_TUNE_HIGH, "open_tune_high_wr")

OpenTuneHighWrite ==
    WriteReg("open_tune_high_wr", SUNXI_PHY_TUNE_HIGH,
             TuneHighValue(val), TuneHighValue(val), "init_ret")

OpenPcs == {"open_pec_rd", "open_pec_wr", "open_pcc_rd", "open_pcc_wr",
            "open_iscr_rd", "open_iscr_wr", "open_tune_low_wr",
            "open_tune_high_rd", "open_tune_high_wr"}

(***************************************************************************)
(* phy-sun50i-usb3.c: sun50i_usb3_phy_init()                               *)
(***************************************************************************)
\* The host powers the PHY up only while it is off (two states, Off and On).
InitCall ==
    /\ pc = "idle" /\ probed /\ ~powered
    /\ pc' = "init_clk" /\ op' = "init" /\ calls' = <<>>
    /\ UNCHANGED <<ret, result, priv, probed, powered, clk_enabled, clk_balance,
                   reset_asserted, regs, val, tune_high_read, pinVars>>

InitClkEnable_FailureUnwinds ==
    /\ pc = "init_clk"
    /\ \E r \in {0} \cup Errnos :
          /\ ret' = r
          /\ calls' = Append(calls, Call("clk_prepare_enable", 0, r))
          /\ IF r # 0
                THEN pc' = "init_rollback" /\ UNCHANGED <<clk_enabled, clk_balance>>
                ELSE clk_enabled' = TRUE /\ clk_balance' = clk_balance + 1
                     /\ pc' = "init_reset"
    /\ UNCHANGED <<op, result, priv, probed, powered, reset_asserted, regs,
                   val, tune_high_read, pinVars>>

\* ret = clk_prepare_enable(&priv->clk); if (ret) return ret;
InitClkEnable ==
    /\ pc = "init_clk"
    /\ \E r \in {0} \cup Errnos :
          /\ ret' = r
          /\ calls' = Append(calls, Call("clk_prepare_enable", 0, r))
          /\ IF r # 0
                THEN result' = r /\ pc' = "idle"
                     /\ UNCHANGED <<clk_enabled, clk_balance>>
                ELSE clk_enabled' = TRUE /\ clk_balance' = clk_balance + 1
                     /\ pc' = "init_reset" /\ UNCHANGED result
    /\ UNCHANGED <<op, priv, probed, powered, reset_asserted, regs, val,
                   tune_high_read, pinVars>>

InitResetDeassert_FailureFallsThrough ==
    /\ pc = "init_reset"
    /\ \E r \in {0} \cup Errnos :
          /\ ret' = r
          /\ calls' = Append(calls, Call("reset_deassert", 0, r))
          /\ IF r # 0
                THEN pc' = "open_pec_rd" /\ UNCHANGED reset_asserted
                ELSE reset_asserted' = FALSE /\ pc' = "open_pec_rd"
    /\ UNCHANGED <<op, result, priv, probed, powered, clk_enabled, clk_balance,
                   regs, val, tune_high_read, pinVars>>

\* ret = reset_deassert(&priv->reset); if (ret) { ... }
InitResetDeassert ==
    /\ pc = "init_reset"
    /\ \E r \in {0} \cup Errnos :
          /\ ret' = r
          /\ calls' = Append(calls, Call("reset_deassert", 0, r))
          /\ IF r # 0
                THEN pc' = "init_rollback" /\ UNCHANGED reset_asserted
                ELSE reset_asserted' = FALSE /\ pc' = "open_pec_rd"
    /\ UNCHANGED <<op, result, priv, probed, powered, clk_enabled, clk_balance,
                   regs, val, tune_high_read, pinVars>>

InitRollback_NoDisable ==
    /\ pc = "init_rollback"
    /\ result' = ret
    /\ pc' = "idle"
    /\ UNCHANGED <<op, ret, calls, priv, probed, powered, clk_enabled,
                   clk_balance, reset_asserted, regs, val, tune_high_read,
                   pinVars>>

\* clk_disable_unprepare(&priv->clk); return ret;
InitRollback ==
    /\ pc = "init_rollback"
    /\ clk_enabled' = FALSE /\ clk_balance' = clk_balance - 1
    /\ calls' = Append(calls, Call("clk_disable_unprepare", 0, 0))
    /\ result' = ret
    /\ pc' = "idle"
    /\ UNCHANGED <<op, ret, priv, probed, powered, reset_asserted, regs, val,
                   tune_high_read, pinVars>>

\* sun50i_usb3_phy_open(priv) has run; return 0;
InitReturn ==
    /\ pc = "init_ret"
    /\ result' = 0
    /\ powered' = TRUE
    /\ pc' = "idle"
    /\ UNCHANGED <<op, ret, calls, priv, probed, clk_enabled, clk_balance,
                   reset_asserted, regs, val, tune_high_read, pinVars>>

(***************************************************************************)
(* phy-sun50i-usb3.c: sun50i_usb3_phy_exit()                               *)
(***************************************************************************)
\* The host powers the PHY down only after an init() that returned 0.
ExitCall ==
    /\ pc = "idle" /\ probed /\ powered
    /\ pc' = "exit_reset" /\ op' = "exit" /\ calls' = <<>>
    /\ UNCHANGED <<ret, result, priv, probed, powered, clk_enabled, clk_balance,
                   reset_asserted, regs, val, tune_high_read, pinVars>>

\* reset_assert(&priv->reset);  (its result is discarded)
ExitResetAssert ==
    /\ pc = "exit_reset"
    /\ reset_asserted' = TRUE
    /\ calls' = Append(calls, Call("reset_assert", 0, 0))
    /\ pc' = "exit_clk"
    /\ UNCHANGED <<op, ret, result, priv, probed, powered, clk_enabled,
                   clk_balance, regs, val, tune_high_read, pinVars>>

ExitClkDisable_Missing ==
    /\ pc = "exit_clk"
    /\ pc' = "exit_ret"
    /\ UNCHANGED <<op, ret, result, calls, priv, probed, powered, clk_enabled,
                   clk_balance, reset_asserted, regs, val, tune_high_read,
                   pinVars>>

\* clk_disable_unprepare(&priv->clk);
ExitClkDisable ==
    /\ pc = "exit_clk"
    /\ clk_enabled' = FALSE /\ clk_balance' = clk_balance - 1
    /\ calls' = Append(calls, Call("clk_disable_unprepare", 0, 0))
    /\ pc' = "exit_ret"
    /\ UNCHANGED <<op, ret, result, priv, probed, powered, reset_asserted,
                   regs, val, tune_high_read, pinVars>>

\* return 0;
ExitReturn ==
    /\ pc = "exit_ret"
    /\ result' = 0
    /\ powered' = FALSE
    /\ pc' = "idle"
    /\ UNCHANGED <<op, ret, calls, priv, probed, clk_enabled, clk_balance,
                   reset_asserted, regs, val, tune_high_read, pinVars>>

(***************************************************************************)
(* pinctrl-apq8096.c                                                       *)
(***************************************************************************)
MAX_PIN_NAME_LEN == 32

\* A C string is a sequence of one-character strings; "" is the NUL byte.
NUL == ""

Digit == <<"0", "1", "2", "3", "4", "5", "6", "7", "8", "9">>

\* "%u": the decimal digits of an unsigned int, most significant first.
RECURSIVE UDec(_)
UDec(n) == IF n < 10 THEN <<Digit[n + 1]>>
                     ELSE UDec(n \div 10) \o <<Digit[(n % 10) + 1]>>

\* The expansion of the format "GPIO_%u".
GpioFmt(selector) == <<"G", "P", "I", "O", "_">> \o UDec(selector)

\* snprintf(buf, size, ...): at most size - 1 characters, then a NUL; the
\* bytes after the NUL keep what they held.
Snprintf(buf, size, str) ==
    LET n == IF Len(str) < size - 1 THEN Len(str) ELSE size - 1
    IN  [i \in 1..Len(buf) |-> IF i <= n THEN str[i]
                               ELSE IF i = n + 1 THEN NUL
                               ELSE buf[i]]

\* The string a reader of the char array sees: everything before the first NUL.
CStr(buf) ==
    LET stop == CHOOSE i \in 1..Len(buf) :
                    buf[i] = NUL /\ \A j \in 1..(i - 1) : buf[j] # NUL
    IN  SubSeq(buf, 1, stop - 1)

\* A const char *: the object pointed into and the index inside it.
Ptr(kind, idx) == [kind |-> kind, idx |-> idx]
NullPtr == Ptr("null", 0)
WildPtr == Ptr("wild", 0)

\* What a caller reads through a pointer an accessor returned.
Deref(p) ==
    CASE p.kind = "pin_name" -> CStr(pin_name)
      [] p.kind = "msm_pinctrl_pins" -> msm_pinctrl_pins[p.idx + 1]
      [] p.kind = "msm_pinctrl_functions" -> msm_pinctrl_functions[p.idx + 1].name

\* Garbage an unchecked read past the end of the function table may yield.
GarbageMux == {0, 7}

\* The initialiser of msm_pinctrl_pins[].
NamedPins == <<
    <<"S", "D", "C", "1", "_", "C", "L", "K">>,
    <<"S", "D", "C", "1", "_", "C", "M", "D">>,
    <<"S", "D", "C", "1", "_", "D", "A", "T", "A">>,
    <<"S", "D", "C", "2", "_", "C", "L", "K">>,
    <<"S", "D", "C", "2", "_", "C", "M", "D">>,
    <<"S", "D", "C", "2", "_", "D", "A", "T", "A">>,
    <<"S", "D", "C", "1", "_", "R", "C", "L", "K">> >>

\* The initialiser of msm_pinctrl_functions[].
Functions == <<
    [name |-> <<"b", "l", "s", "p", "_", "u", "a", "r", "t", "8">>, val |-> 2] >>

\* return msm_pinctrl_functions[selector].name;
apq8096_get_function_name(selector) ==
    IF selector < Len(msm_pinctrl_functions)
        THEN Ptr("msm_pinctrl_functions", selector)
        ELSE WildPtr

apq8096_get_function_mux_ReturnsSelector(selector) == {selector}

\* return msm_pinctrl_functions[selector].val;
apq8096_get_function_mux(selector) ==
    IF selector < Len(msm_pinctrl_functions)
        THEN {msm_pinctrl_functions[selector + 1].val}
        ELSE GarbageMux

PinNameAfter_KeepFirst(selector) ==
    IF selector < 150 /\ pin_name[1] = NUL
        THEN Snprintf(pin_name, MAX_PIN_NAME_LEN, GpioFmt(selector))
        ELSE pin_name

\* The contents of pin_name[] after apq8096_get_pin_name(selector).
PinNameAfter(selector) ==
    IF selector < 150
        THEN Snprintf(pin_name, MAX_PIN_NAME_LEN, GpioFmt(selector))
        ELSE pin_name

apq8096_get_pin_name_OffByOne(selector) ==
    IF selector <= 150
        THEN Ptr("pin_name", 0)
        ELSE IF selector - 150 < Len(msm_pinctrl_pins)
                 THEN Ptr("msm_pinctrl_pins", selector - 150)
                 ELSE WildPtr

\* The pointer apq8096_get_pin_name(selector) returns.
apq8096_get_pin_name(selector) ==
    IF selector < 150
        THEN Ptr("pin_name", 0)
        ELSE IF selector - 150 < Len(msm_pinctrl_pins)
                 THEN Ptr("msm_pinctrl_pins", selector - 150)
                 ELSE WildPtr

Returned(fn, selector, ptr, mux) ==
    [fn |-> fn, sel |-> selector, ptr |-> ptr, mux |-> mux]

GetFunctionName(c, selector) ==
    /\ last' = [last EXCEPT ![c] = Returned("get_function_name", selector,
                                   apq8096_get_function_name(selector), 0)]
    /\ UNCHANGED <<pin_name, pin_name_sel, msm_pinctrl_pins, msm_pinctrl_functions,
                   apq8096_data, phyVars>>

GetFunctionMux(c, selector) ==
    /\ \E m \in apq8096_get_function_mux(selector) :
          last' = [last EXCEPT ![c] = Returned("get_function_mux", selector,
                                                NullPtr, m)]
    /\ UNCHANGED <<pin_name, pin_name_sel, msm_pinctrl_pins, msm_pinctrl_functions,
                   apq8096_data, phyVars>>

GetPinName(c, selector) ==
    /\ pin_name' = PinNameAfter(selector)
    /\ pin_name_sel' = IF selector < 150 THEN selector ELSE pin_name_sel
    /\ last' = [last EXCEPT ![c] = Returned("get_pin_name", selector,
                                   apq8096_get_pin_name(selector), 0)]
    /\ UNCHANGED <<msm_pinctrl_pins, msm_pinctrl_functions, apq8096_data,
                   phyVars>>

(***************************************************************************)
(* Bounds of the model                                                     *)
(***************************************************************************)
\* Pin selectors 0..MaxPinSelector are tried; pin_count and above are out of range.
MaxPinSelector == 157
\* Function selectors 0..MaxFunctionSelector are tried; 1 and above are out of range.
MaxFunctionSelector == 1
\* Holders of returned names in the shared-buffer specification.
NumCallers == 2

Callers == 1..NumCallers
PinSelectors == 0..MaxPinSelector
FunctionSelectors == 0..MaxFunctionSelector
\* Selectors at the edges of the digit counts and of the named range.
SharedSelectors == {0, 9, 10, 99, 100, 149, 150, 156}

(***************************************************************************)
(* Initial states                                                          *)
(***************************************************************************)
PhyInit ==
    /\ pc = "idle" /\ op = "none" /\ ret = 0 /\ result = 0 /\ calls = <<>>
    /\ priv = [clk |-> FALSE, reset |-> FALSE, regs |-> FALSE]
    /\ probed = FALSE /\ powered = FALSE
    /\ clk_enabled = FALSE /\ clk_balance = 0 /\ reset_asserted = TRUE
    /\ regs \in [Offsets -> RegSamples]
    /\ val = {} /\ tune_high_read = {}

PinInit ==
    /\ pin_name = [i \in 1..MAX_PIN_NAME_LEN |-> NUL]
    /\ pin_name_sel = -1
    /\ msm_pinctrl_pins = NamedPins
    /\ msm_pinctrl_functions = Functions
    /\ apq8096_data = [pin_count |-> 157,
                       functions_count |-> Len(msm_pinctrl_functions)]
    /\ last = [c \in Callers |-> Returned("none", 0, NullPtr, 0)]

Init == PhyInit /\ PinInit

(***************************************************************************)
(* Specifications                                                          *)
(***************************************************************************)
\* The PHY driver under a host that probes, then powers up and down.
Next ==
    \/ ProbeCall \/ ProbeClkGet \/ ProbeResetGet \/ ProbeReadAddr
    \/ InitCall \/ InitClkEnable \/ InitResetDeassert \/ InitRollback
    \/ OpenExternalControlRead \/ OpenExternalControlWrite
    \/ OpenPipeClockRead \/ OpenPipeClockWrite
    \/ OpenIscrRead \/ OpenIscrWrite
    \/ OpenTuneLowWrite
    \/ OpenTuneHighRead \/ OpenTuneHighWrite
    \/ InitReturn
    \/ ExitCall \/ ExitResetAssert \/ ExitClkDisable \/ ExitReturn

Spec == Init /\ [][Next]_vars

\* The two drivers do not interact: the pin-control specifications leave the
\* PHY untouched, with its registers cleared.
PinOnlyInit == PinInit /\ PhyInit /\ regs = [o \in Offsets |-> {}]

\* The pin-control accessors, one caller, every selector.
PinSweepNext ==
    \/ \E s \in PinSelectors : GetPinName(1, s)
    \/ \E s \in FunctionSelectors : GetFunctionName(1, s)
    \/ \E s \in FunctionSelectors : GetFunctionMux(1, s)

PinSweepSpec == PinOnlyInit /\ [][PinSweepNext]_vars

\* The pin-control accessors, several holders of returned names.
PinSharedNext ==
    \/ \E c \in Callers, s \in SharedSelectors : GetPinName(c, s)
    \/ \E c \in Callers, s \in FunctionSelectors : GetFunctionName(c, s)
    \/ \E c \in Callers, s \in FunctionSelectors : GetFunctionMux(c, s)

PinSharedSpec == PinOnlyInit /\ [][PinSharedNext]_vars

(***************************************************************************)
(* Vocabulary of the properties                                            *)
(***************************************************************************)
\* Positions in `calls` of the calls to fn, and of the register accesses.
CallsTo(fn) == {i \in DOMAIN calls : calls[i][1] = fn}
Accesses == CallsTo("readl") \cup CallsTo("writel")

IsRead(c) == c[1] = "readl"
IsWrite(c) == c[1] = "writel"

InitReturned == pc = "idle" /\ op = "init"
InitSucceeded == InitReturned /\ result = 0
ExitReturned == pc = "idle" /\ op = "exit"
ProbeReturned == pc = "idle" /\ op = "probe"

\* The PHY as the host sees it before init() and after exit().
PhyOff == ~powered /\ ~clk_enabled /\ clk_balance = 0 /\ reset_asserted

\* init() came back after clk_prepare_enable() failed.
ClkEnableFailed ==
    /\ InitReturned /\ Len(calls) >= 1
    /\ calls[1][1] = "clk_prepare_enable" /\ calls[1][3] # 0

\* init() came back after clk_prepare_enable() succeeded and reset_deassert() failed.
ResetDeassertFailed ==
    /\ InitReturned /\ Len(calls) >= 2
    /\ calls[1] = <<"clk_prepare_enable", 0, 0>>
    /\ calls[2][1] = "reset_deassert" /\ calls[2][3] # 0

\* The number held in bits hi..lo of the u32 v.
RECURSIVE FieldFrom(_, _, _)
FieldFrom(v, hi, i) ==
    IF i > hi THEN 0
    ELSE (IF i \in v THEN 1 ELSE 0) + 2 * FieldFrom(v, hi, i + 1)

Field(v, hi, lo) == FieldFrom(v, hi, lo)

\* Reading a decimal numeral back, independently of UDec.
DigitValue(ch) ==
    CASE ch = "0" -> 0 [] ch = "1" -> 1 [] ch = "2" -> 2 [] ch = "3" -> 3
      [] ch = "4" -> 4 [] ch = "5" -> 5 [] ch = "6" -> 6 [] ch = "7" -> 7
      [] ch = "8" -> 8 [] ch = "9" -> 9 [] OTHER -> -1

RECURSIVE ParseDec(_)
ParseDec(str) ==
    IF str = <<>> THEN 0
    ELSE 10 * ParseDec(SubSeq(str, 1, Len(str) - 1)) + DigitValue(str[Len(str)])

IsDecimalOf(str, n) ==
    /\ Len(str) >= 1
    /\ \A i \in DOMAIN str : DigitValue(str[i]) >= 0
    /\ Len(str) > 1 => str[1] # "0"
    /\ ParseDec(str) = n

\* name is "GPIO_" followed by the decimal numeral of s.
IsGpioName(name, s) ==
    /\ Len(name) > 5
    /\ SubSeq(name, 1, 5) = <<"G", "P", "I", "O", "_">>
    /\ IsDecimalOf(SubSeq(name, 6, Len(name)), s)

(***************************************************************************)
(* Properties of the PHY driver (specification Spec)                       *)
(***************************************************************************)

\* C1: when clk_prepare_enable() succeeds and reset_deassert() then fails,
\* init() returns the reset error, has called clk_disable_unprepare() exactly
\* once (as its last call), has touched no register, and leaves the PHY off.
C1_ResetFailureRollsBackClock ==
    ResetDeassertFailed =>
        /\ result = calls[2][3]
        /\ Cardinality(CallsTo("clk_disable_unprepare")) = 1
        /\ calls[Len(calls)][1] = "clk_disable_unprepare"
        /\ Accesses = {}
        /\ PhyOff

C1_Witness == ResetDeassertFailed /\ result = -110 /\ Len(calls) = 3

\* C2: when clk_prepare_enable() fails, init() returns that error, calls
\* neither reset_deassert() nor clk_disable_unprepare(), touches no register,
\* and leaves the PHY off.
C2_ClockFailureTouchesNothing ==
    ClkEnableFailed =>
        /\ result = calls[1][3]
        /\ CallsTo("reset_deassert") = {}
        /\ CallsTo("clk_disable_unprepare") = {}
        /\ Accesses = {}
        /\ PhyOff

C2_Witness == ClkEnableFailed /\ result = -5 /\ Len(calls) = 1

\* C3: whenever exit() has returned (it only runs after an init() that
\* succeeded, failed init() calls in between allowed), the reset line is
\* asserted, the clock is disabled with enables and disables balanced, exit()
\* returned 0, and it asserted the reset before it disabled the clock,
\* whatever the registers hold.
C3_ExitLeavesPhyOff ==
    /\ ExitReturned =>
          /\ PhyOff
          /\ result = 0
          /\ calls = << <<"reset_assert", 0, 0>>,
                        <<"clk_disable_unprepare", 0, 0>> >>
    /\ pc = "exit_clk" => reset_asserted /\ clk_enabled

C3_Witness ==
    /\ ExitReturned /\ PhyOff
    /\ regs[SUNXI_PHY_TUNE_HIGH] # {} /\ regs[SUNXI_PHY_TUNE_LOW] = U32(TUNE_LOW_MAGIC)

\* C4: in every reachable state, registers have been accessed by the current
\* handler only if it is init(), the clock is enabled and the reset is
\* de-asserted, and both collaborator calls succeeded before the first
\* access; a failed init() and an exit() access no register.
C4_RegistersOnlyWhenPoweredUp ==
    /\ Accesses # {} =>
          /\ op = "init" /\ clk_enabled /\ ~reset_asserted
          /\ calls[1] = <<"clk_prepare_enable", 0, 0>>
          /\ calls[2] = <<"reset_deassert", 0, 0>>
          /\ \A i \in Accesses : i > 2
    /\ pc \in OpenPcs => clk_enabled /\ ~reset_asserted
    /\ (InitReturned /\ result # 0) => Accesses = {}
    /\ op = "exit" => Accesses = {}

C4_Witness ==
    /\ pc = "open_tune_high_wr" /\ Cardinality(Accesses) = 8
    /\ clk_enabled /\ ~reset_asserted

\* C5: after a successful init(), PHY_TUNE_HIGH holds 0x7 in bits 2:0, 0x7 in
\* bits 5:3, 0x55 in bits 12:6, 0x20 in bits 18:13 and 0x15 in bits 24:19,
\* and bits 31:25 are those of the value read before the write.
C5_TuneHighFields ==
    InitSucceeded =>
        LET v == regs[SUNXI_PHY_TUNE_HIGH] IN
        /\ Field(v, 2, 0) = 7
        /\ Field(v, 5, 3) = 7
        /\ Field(v, 12, 6) = 85
        /\ Field(v, 18, 13) = 32
        /\ Field(v, 24, 19) = 21
        /\ v \cap (25..31) = tune_high_read \cap (25..31)

C5_Witness ==
    /\ InitSucceeded
    /\ tune_high_read = OddBits
    /\ regs[SUNXI_PHY_TUNE_HIGH] # tune_high_read

\* The registers written, and read, by the current handler, in order.
WriteOrder == [i \in DOMAIN SelectSeq(calls, IsWrite) |-> SelectSeq(calls, IsWrite)[i][2]]
ReadOrder == [i \in DOMAIN SelectSeq(calls, IsRead) |-> SelectSeq(calls, IsRead)[i][2]]

OpenWriteOrder == <<SUNXI_PHY_EXTERNAL_CONTROL, SUNXI_PIPE_CLOCK_CONTROL,
                    SUNXI_ISCR, SUNXI_PHY_TUNE_LOW, SUNXI_PHY_TUNE_HIGH>>

\* C9 as stated: a successful init() performs exactly 5 register writes and
\* 3 register reads, in the order external-control, pipe-clock-control, ISCR,
\* tune-low, tune-high, each write immediately preceded by a read of the same
\* register.
C9_AsStated ==
    InitSucceeded =>
        /\ Cardinality(CallsTo("writel")) = 5
        /\ Cardinality(CallsTo("readl")) = 3
        /\ WriteOrder = OpenWriteOrder
        /\ \A i \in CallsTo("writel") : calls[i - 1] = <<"readl", calls[i][2], 0>>

\* C9 amended: a successful init() performs exactly 5 register writes and 4
\* register reads, the writes in the order external-control,
\* pipe-clock-control, ISCR, tune-low, tune-high; every write except the one
\* to tune-low is immediately preceded by a read of the same register, every
\* read is immediately followed by a write to the register read, and tune-low
\* is written without being read.
C9_FiveWritesFourReads ==
    InitSucceeded =>
        /\ Cardinality(CallsTo("writel")) = 5
        /\ Cardinality(CallsTo("readl")) = 4
        /\ WriteOrder = OpenWriteOrder
        /\ \A i \in CallsTo("writel") :
              calls[i][2] # SUNXI_PHY_TUNE_LOW =>
                  calls[i - 1] = <<"readl", calls[i][2], 0>>
        /\ \A i \in CallsTo("readl") :
              /\ i < Len(calls)
              /\ calls[i + 1] = <<"writel", calls[i][2], 0>>
              /\ calls[i][2] # SUNXI_PHY_TUNE_LOW

C9_Witness ==
    /\ InitSucceeded /\ Len(calls) = 11
    /\ ReadOrder = <<SUNXI_PHY_EXTERNAL_CONTROL, SUNXI_PIPE_CLOCK_CONTROL,
                     SUNXI_ISCR, SUNXI_PHY_TUNE_HIGH>>

ProbeOrder == <<"clk_get_by_index", "reset_get_by_index", "dev_read_addr_ptr">>

\* C10: probe calls clk_get_by_index(0), reset_get_by_index(0) and
\* dev_read_addr_ptr() in that order, each only after the ones before it
\* succeeded; it returns the error of the first of the two lookups that fails,
\* -EINVAL (-22) for a NULL register base, and 0 exactly when all three
\* succeed; it never enables the clock, moves the reset line or accesses a
\* register.
C10_ProbeStopsAtFirstFailure ==
    op = "probe" =>
        /\ Len(calls) <= 3
        /\ \A i \in DOMAIN calls :
              /\ calls[i][1] = ProbeOrder[i]
              /\ calls[i][2] = 0
              /\ i < Len(calls) => calls[i][3] = 0
        /\ ~clk_enabled /\ clk_balance = 0 /\ reset_asserted
        /\ CallsTo("clk_prepare_enable") = {} /\ Accesses = {}
        /\ pc = "idle" =>
              LET n == Len(calls) IN
              /\ n >= 1
              /\ n < 3 => calls[n][3] # 0 /\ result = calls[n][3]
              /\ (n = 3 /\ calls[3][3] = 0) => result = -22
              /\ (n = 3 /\ calls[3][3] # 0) => result = 0
              /\ probed <=> result = 0
              /\ result = 0 <=> (n = 3 /\ priv.clk /\ priv.reset /\ priv.regs)

C10_Witness ==
    /\ ProbeReturned /\ result = -22
    /\ Len(calls) = 3 /\ ~probed

(***************************************************************************)
(* Properties of the pin-control driver                                    *)
(***************************************************************************)

\* C6 (specification PinSweepSpec): the name just returned by get_pin_name(s)
\* is "GPIO_" followed by the decimal numeral of s when s < 150, and is entry
\* s - 150 of the 7-entry named-pin table when 150 <= s < 157, "SDC1_CLK" for
\* 150 and "SDC1_RCLK" for 156.
C6_PinNames ==
    \A c \in Callers :
        last[c].fn = "get_pin_name" =>
            LET s == last[c].sel
                p == last[c].ptr
            IN  /\ s < 150 => p.kind = "pin_name" /\ IsGpioName(Deref(p), s)
                /\ (150 <= s /\ s < 157) =>
                      /\ p.kind = "msm_pinctrl_pins"
                      /\ p.idx = s - 150
                      /\ p.idx < Len(msm_pinctrl_pins)
                      /\ Len(msm_pinctrl_pins) = 7
                      /\ Deref(p) = NamedPins[s - 150 + 1]
                /\ s = 150 => Deref(p) = <<"S", "D", "C", "1", "_", "C", "L", "K">>
                /\ s = 156 => Deref(p) = <<"S", "D", "C", "1", "_", "R", "C", "L", "K">>

C6_Witness ==
    /\ last[1].fn = "get_pin_name" /\ last[1].sel = 149
    /\ Deref(last[1].ptr) = <<"G", "P", "I", "O", "_", "1", "4", "9">>
    /\ pin_name[7] = "4"

\* C7 (specification PinSharedSpec): every holder of a name returned for a
\* selector below 150 reads, through it, "GPIO_<t>" for the selector t below
\* 150 that was formatted last by any caller, its own or not; a holder of a
\* name returned for 150..156 always reads that table entry.
C7_SharedScratchBuffer ==
    \A c \in Callers :
        last[c].fn = "get_pin_name" =>
            /\ last[c].sel < 150 =>
                  /\ last[c].ptr = Ptr("pin_name", 0)
                  /\ IsGpioName(Deref(last[c].ptr), pin_name_sel)
            /\ (150 <= last[c].sel /\ last[c].sel < 157) =>
                  Deref(last[c].ptr) = NamedPins[last[c].sel - 150 + 1]

\* One holder asked for pin 9, another then asked for pin 10, and the first
\* now reads "GPIO_10"; a third name, for pin 150, is unaffected.
C7_Witness ==
    /\ last[1].fn = "get_pin_name" /\ last[1].sel = 9
    /\ last[2].fn = "get_pin_name" /\ last[2].sel = 10
    /\ pin_name_sel = 10
    /\ Deref(last[1].ptr) = <<"G", "P", "I", "O", "_", "1", "0">>

\* C8 (specification PinSweepSpec): pin_count is 157 and functions_count is
\* 1, get_function_name(0) is "blsp_uart8" and get_function_mux(0) is 2, and
\* the pin table, the function table and the two counts are what they were
\* initialised to after any sequence of accessor calls.
C8_DescriptorIsConstant ==
    /\ apq8096_data.pin_count = 157
    /\ apq8096_data.functions_count = 1
    /\ msm_pinctrl_pins = NamedPins
    /\ msm_pinctrl_functions = Functions
    /\ \A c \in Callers :
          /\ (last[c].fn = "get_function_name" /\ last[c].sel = 0) =>
                Deref(last[c].ptr) = <<"b", "l", "s", "p", "_", "u", "a", "r", "t", "8">>
          /\ (last[c].fn = "get_function_mux" /\ last[c].sel = 0) =>
                last[c].mux = 2

C8_Witness ==
    /\ last[1].fn = "get_function_mux" /\ last[1].sel = 0 /\ last[1].mux = 2
    /\ pin_name_sel = 149

=============================================================================
